---- MODULE Spec2Model ----
(***************************************************************************)
(* Match lifecycle engine of the two-player guessing game server.          *)
(*                                                                         *)
(* The repository ships two variants of the server:                        *)
(*   src/server.js          queue array, scores kept in socket.user,       *)
(*                          rounds chained through setTimeout closures     *)
(*   src/unnamed/part_000   single waitingPlayer slot, scores kept in the  *)
(*                          room, guessing countdown through setInterval   *)
(* A run executes one of them (variable "variant").  The state of the      *)
(* first carries the suffix S, the state of the second the suffix P, where *)
(* both files use the same name.                                           *)
(*                                                                         *)
(* Every handler of the event loop (a socket event or a timer callback)    *)
(* is one action: node runs each callback to completion.                   *)
(***************************************************************************)
EXTENDS Integers, Sequences, FiniteSets, Bags, TLC

(* ------------------------------ bounds --------------------------------- *)

\* number of sockets that ever connect
NumSockets == 3
\* a wide run: identify events, and timer callbacks run, over the run
MaxIdentify == 4
MaxCallbacks == 4
\* a deep run: identify events over the run (its timers run freely)
DeepIdentify == 3
\* a solo run: the sockets that connect; its identify events are those of a
\* wide run and its timers run freely
SoloSockets == 1
\* number of callbacks that may be scheduled and not yet run in a solo run
SoloTimers == 2
\* a timed run: time passes in units of one second and a callback runs when
\* its delay has passed; the sockets that connect, the identify events and
\* the seconds that pass over the run
TimedSockets == 2
TimedIdentify == 4
TimedSeconds == 32
\* a side-by-side run: both files receive the same events; the sockets that
\* connect, the identify events, the submit_score events and the paired
\* timer callbacks over the run
BothSockets == 2
BothIdentify == 3
BothSubmit == 2
BothCallbacks == 3
\* number of submit_score events over one run
MaxSubmit == 1
\* a submit_score carries points in 1..MaxPoints
MaxPoints == 1
\* number of callbacks that may be scheduled and not yet run
MaxTimers == 4

(* --------------------------- program constants ------------------------- *)

DECK_SIZE == 300
DB_LENGTH == 300
maxRounds == 15
\* generateDeck(15)
DeckCount == 15
\* seekTime = floor(random * SeekSpan) + SeekBase
SeekSpan == 11
SeekBase == 40
\* duration field of round_start, and the initial timeLeft of the countdown
GuessDuration == 20
\* setTimeout(..., 3000), setTimeout(..., 8000), setInterval(..., 1000), in
\* seconds (setTimeout(..., 20000) is GuessDuration)
LobbyDelay == 3
RevealDelay == 8
IntervalPeriod == 1

\* Math.random() returns a double in [0, 1); the model draws k / RandomUnits
\* for k in 0 .. RandomUnits - 1
RandomUnits == 3300

Sockets == 1..NumSockets
Points == 1..MaxPoints

\* `room_${opponent.id}_${socket.id}`: the pair of the two socket ids
RoomIdOf(opponent, socket) == <<opponent, socket>>
RoomIds == Sockets \X Sockets
\* socket.roomId before any pairing (undefined)
NoRoom == <<0, 0>>
\* socket.user before identify (undefined)
NoUser == [score |-> -1]

\* The draws of Math.random() made by one call of generateDeck
DeckDraws ==
    { [i \in 1..DeckCount |->
          IF i = 1 THEN 0
          ELSE IF i = 2 THEN RandomUnits - 1
          ELSE (i * 1237) % RandomUnits] }
\* The draws of Math.random() made for a seekTime
SeekDraws == {0, RandomUnits - 1}

\* Math.floor(Math.random() * n) for the draw r / RandomUnits
FloorRandom(r, n) == (r * n) \div RandomUnits

VARIABLES
    variant,        \* which file runs: "server.js", "part_000" or "both"
    run,            \* how the run is bounded: "wide", "deep", "solo", "timed",
                    \* "both"
    status,         \* per socket: "new", "connected", "disconnected"
    nIdentify,      \* identify events so far
    nSubmit,        \* submit_score events so far
    nCallbacks,     \* timer callbacks run so far (counted in a wide run)
    now,            \* seconds passed so far (counted in a timed run)
    \* ---- src/server.js
    queue,          \* const queue = []
    roomsS,         \* const rooms = {}: room id -> index into heapS, 0 when absent
    heapS,          \* the room objects created so far
    userS,          \* socket.user
    roomIdS,        \* socket.roomId
    joinedS,        \* socket.io rooms: room id -> sockets that joined
    timersS,        \* scheduled callbacks (a bag)
    outS,           \* events emitted by the last handler that ran
    \* ---- src/unnamed/part_000
    waitingPlayer,  \* let waitingPlayer = null (0)
    roomsP,
    heapP,
    userP,
    roomIdP,
    joinedP,
    timersP,
    outP,
    \* ---- what an observer of the outbound events has seen
    life,           \* per room id: the last lifecycle event and its round
    accepted,       \* per room id: points accepted from p1 and from p2
    since           \* per room id: seconds since its last lifecycle event

envVars == <<variant, run, status, nIdentify, nSubmit, nCallbacks, now>>
varsS == <<queue, roomsS, heapS, userS, roomIdS, joinedS, timersS, outS>>
varsP == <<waitingPlayer, roomsP, heapP, userP, roomIdP, joinedP, timersP, outP>>
obsVars == <<life, accepted, since>>
vars == <<envVars, varsS, varsP, obsVars>>

(* ------------------------------ events --------------------------------- *)

\* One outbound event.  room: the socket.io room it is broadcast to (NoRoom
\* for an event sent to one socket); p1, p2: the profiles' socket ids in
\* match_found, the scores in score_update and game_over; duration: of
\* round_start.
Event(event, room, socket, round, songIndex, seekTime, p1, p2) ==
    [event |-> event, room |-> room, socket |-> socket, round |-> round,
     songIndex |-> songIndex, seekTime |-> seekTime, p1 |-> p1, p2 |-> p2,
     duration |-> 0]

WaitingOpponent(socket) == Event("waiting_opponent", NoRoom, socket, 0, 0, 0, 0, 0)
MatchFound(roomId, opponent, socket) ==
    Event("match_found", roomId, 0, 0, 0, 0, opponent, socket)
RoundStart(roomId, round, songIndex, seekTime) ==
    [Event("round_start", roomId, 0, round, songIndex, seekTime, 0, 0)
        EXCEPT !.duration = GuessDuration]
RoundReveal(roomId) == Event("round_reveal", roomId, 0, 0, 0, 0, 0, 0)
ScoreUpdate(roomId, p1, p2) == Event("score_update", roomId, 0, 0, 0, 0, p1, p2)
GameOver(roomId, p1, p2) == Event("game_over", roomId, 0, 0, 0, 0, p1, p2)
OpponentLeft(roomId) == Event("opponent_left", roomId, 0, 0, 0, 0, 0, 0)

\* the delay a callback is scheduled with, in seconds
DelayOf(kind) ==
    CASE kind = "lobby" -> LobbyDelay
      [] kind = "guess" -> GuessDuration
      [] kind = "reveal" -> RevealDelay
      [] kind = "interval" -> IntervalPeriod

\* A scheduled callback.  room: the room object its closure captured (0 when
\* the closure captures only roomId); id, timeLeft: of a setInterval; delay:
\* the seconds until it is due.
Timer(kind, roomId, room, id, timeLeft) ==
    [kind |-> kind, roomId |-> roomId, room |-> room, id |-> id,
     timeLeft |-> timeLeft, delay |-> DelayOf(kind)]

Schedule(timers, t) == timers (+) SetToBag({t})
Unschedule(timers, t) == timers (-) SetToBag({t})
Pending(timers) == BagCardinality(timers)

\* generateDeck(count): count draws, each floored into [0, size)
generateDeck(draws, size) == [i \in 1..DeckCount |-> FloorRandom(draws[i], size)]

\* room.deck[room.round], a slip of one position
songIndexAhead(deck, round) ==
    IF round + 1 \in DOMAIN deck THEN deck[round + 1] ELSE -1

\* room.deck[room.round - 1]: an index outside the array reads undefined (-1)
songIndexOf(deck, round) == IF round \in DOMAIN deck THEN deck[round] ELSE -1

\* Math.floor(Math.random() * 11) + 40
seekTimeOf(r) == FloorRandom(r, SeekSpan) + SeekBase

\* A room object that neither rooms nor a scheduled closure refers to is
\* garbage: nothing can read it again, and the model forgets its fields.
Garbage == [id |-> NoRoom]
Reachable(i, rooms, timers) ==
    \/ \E r \in RoomIds : rooms[r] = i
    \/ \E t \in BagToSet(timers) : t.room = i
Collect(heap, rooms, timers) ==
    [i \in 1..Len(heap) |->
        IF Reachable(i, rooms, timers) THEN heap[i] ELSE Garbage]

\* delete rooms[roomId], with a slip that leaves the entry in place
deleteRoomNone(rooms, roomId) == rooms

\* delete rooms[roomId]
deleteRoom(rooms, roomId) == [rooms EXCEPT ![roomId] = 0]

(* ------------------------------ connection ----------------------------- *)

\* io.on('connection'): the socket exists and its handlers are registered.
\* Socket ids are fresh names: the model numbers sockets as they connect.
connection(s) ==
    /\ status[s] = "new"
    /\ \A o \in Sockets : o < s => status[o] # "new"
    /\ status' = [status EXCEPT ![s] = "connected"]

\* the transport reports the socket gone; socket.io has already taken it out
\* of every room it joined when the disconnect handler runs
gone(s) ==
    /\ status[s] = "connected"
    /\ status' = [status EXCEPT ![s] = "disconnected"]

(* ============================ src/server.js ============================ *)

\* the room object created by matchmake
NewRoomS(roomId, opponent, socket, draws) ==
    [id |-> roomId, p1 |-> opponent, p2 |-> socket, round |-> 0,
     maxRounds |-> maxRounds, phase |-> "lobby",
     deck |-> generateDeck(draws, DECK_SIZE)]

\* if (queue.length > 0), with a slip that lets a second socket queue up
opponentQueuedLate == Len(queue) > 1

\* if (queue.length > 0)
opponentQueued == Len(queue) > 0

\* function matchmake(socket)
matchmake(socket, draws) ==
    IF opponentQueued
    THEN LET opponent == queue[Len(queue)]
             roomId == RoomIdOf(opponent, socket)
             rooms == [roomsS EXCEPT ![roomId] = Len(heapS) + 1]
             timers == Schedule(timersS, Timer("lobby", roomId, 0, 0, 0))
         IN /\ queue' = SubSeq(queue, 1, Len(queue) - 1)
            /\ joinedS' = [joinedS EXCEPT ![roomId] = @ \cup {socket, opponent}]
            /\ roomIdS' = [roomIdS EXCEPT ![socket] = roomId, ![opponent] = roomId]
            /\ roomsS' = rooms
            /\ timersS' = timers
            /\ heapS' = Collect(Append(heapS,
                                  NewRoomS(roomId, opponent, socket, draws)),
                                rooms, timers)
            /\ outS' = <<MatchFound(roomId, opponent, socket)>>
    ELSE /\ queue' = Append(queue, socket)
         /\ outS' = <<WaitingOpponent(socket)>>
         /\ UNCHANGED <<joinedS, roomIdS, heapS, roomsS, timersS>>

\* socket.on('identify')
identifyS(socket, draws) ==
    /\ userS' = [userS EXCEPT ![socket] = [score |-> 0]]
    /\ matchmake(socket, draws)

\* queue.indexOf(socket); if (index > -1) queue.splice(index, 1)
RemoveFirst(q, x) ==
    IF \E i \in 1..Len(q) : q[i] = x
    THEN LET index == CHOOSE i \in 1..Len(q) :
                          q[i] = x /\ \A j \in 1..(i - 1) : q[j] # x
         IN SubSeq(q, 1, index - 1) \o SubSeq(q, index + 1, Len(q))
    ELSE q

\* socket.roomId && rooms[socket.roomId]
RoutedS(socket) == roomIdS[socket] # NoRoom /\ roomsS[roomIdS[socket]] # 0

\* socket.on('disconnect')
disconnectS(socket) ==
    /\ queue' = RemoveFirst(queue, socket)
    /\ joinedS' = [r \in RoomIds |-> joinedS[r] \ {socket}]
    /\ IF RoutedS(socket)
       THEN LET rooms == deleteRoom(roomsS, roomIdS[socket])
            IN /\ outS' = <<OpponentLeft(roomIdS[socket])>>
               /\ roomsS' = rooms
               /\ heapS' = Collect(heapS, rooms, timersS)
       ELSE /\ outS' = <<>>
            /\ UNCHANGED <<roomsS, heapS>>
    /\ UNCHANGED <<userS, roomIdS, timersS>>

\* socket.on('submit_score')
submit_scoreS(socket, points) ==
    IF ~RoutedS(socket)
    THEN /\ outS' = <<>>
         /\ UNCHANGED <<queue, roomsS, heapS, userS, roomIdS, joinedS, timersS>>
    ELSE LET u == [userS EXCEPT ![socket].score = @ + points]
             room == heapS[roomsS[roomIdS[socket]]]
         IN /\ userS' = u
            /\ outS' = <<ScoreUpdate(roomIdS[socket], u[room.p1].score,
                                     u[room.p2].score)>>
            /\ UNCHANGED <<queue, roomsS, heapS, roomIdS, joinedS, timersS>>

\* room.round++, with a slip that leaves the counter as it was
roundAfterNone(room) == room.round

\* room.round++
roundAfter(room) == room.round + 1

\* if (room.round >= room.maxRounds)
roundsPlayed(room) == room.round >= room.maxRounds

\* const nextRound = () => {...} of startGameLoop, for the captured room
\* object; rest: the scheduled callbacks without the one that is running
nextRound(roomId, room, rest, seek) ==
    IF roundsPlayed(heapS[room])
    THEN LET rooms == deleteRoom(roomsS, roomId)
         IN /\ outS' = <<GameOver(roomId, userS[heapS[room].p1].score,
                                  userS[heapS[room].p2].score)>>
            /\ roomsS' = rooms
            /\ timersS' = rest
            /\ heapS' = Collect(heapS, rooms, rest)
    ELSE LET round == roundAfter(heapS[room])
             timers == Schedule(rest, Timer("guess", roomId, room, 0, 0))
         IN /\ heapS' = Collect([heapS EXCEPT ![room].round = round],
                                roomsS, timers)
            /\ outS' = <<RoundStart(roomId, round, songIndexOf(heapS[room].deck, round),
                                    seekTimeOf(seek))>>
            /\ timersS' = timers
            /\ UNCHANGED roomsS

\* a callback that finds its room gone returns at once
staleS(t) ==
    /\ timersS' = Unschedule(timersS, t)
    /\ heapS' = Collect(heapS, roomsS, Unschedule(timersS, t))
    /\ outS' = <<>>
    /\ UNCHANGED roomsS

\* setTimeout(() => startGameLoop(roomId), 3000) fires
startGameLoop(t, seek) ==
    /\ t.kind = "lobby"
    /\ IF roomsS[t.roomId] = 0
       THEN staleS(t)
       ELSE nextRound(t.roomId, roomsS[t.roomId], Unschedule(timersS, t), seek)
    /\ UNCHANGED <<queue, userS, roomIdS, joinedS>>

\* the 20000 ms callback of nextRound fires
guessTimeoutS(t) ==
    /\ t.kind = "guess"
    /\ IF roomsS[t.roomId] = 0
       THEN staleS(t)
       ELSE /\ outS' = <<RoundReveal(t.roomId)>>
            /\ timersS' = Schedule(Unschedule(timersS, t),
                                   Timer("reveal", t.roomId, t.room, 0, 0))
            /\ UNCHANGED <<roomsS, heapS>>
    /\ UNCHANGED <<queue, userS, roomIdS, joinedS>>

\* the 8000 ms callback fires
revealTimeoutS(t, seek) ==
    /\ t.kind = "reveal"
    /\ IF roomsS[t.roomId] = 0
       THEN staleS(t)
       ELSE nextRound(t.roomId, t.room, Unschedule(timersS, t), seek)
    /\ UNCHANGED <<queue, userS, roomIdS, joinedS>>

(* ========================= src/unnamed/part_000 ======================== *)

\* the room object created by findMatch; timer 0 is null, otherwise the
\* round in which the interval it names was started
NewRoomP(roomId, opponent, socket, draws) ==
    [id |-> roomId, p1 |-> opponent, p2 |-> socket,
     scores |-> [p1 |-> 0, p2 |-> 0], round |-> 0, maxRounds |-> maxRounds,
     deck |-> generateDeck(draws, DB_LENGTH), timer |-> 0]

\* function findMatch(socket)
findMatch(socket, draws) ==
    IF waitingPlayer # 0
    THEN LET opponent == waitingPlayer
             roomId == RoomIdOf(opponent, socket)
             rooms == [roomsP EXCEPT ![roomId] = Len(heapP) + 1]
             timers == Schedule(timersP, Timer("lobby", roomId, 0, 0, 0))
         IN /\ waitingPlayer' = 0
            /\ joinedP' = [joinedP EXCEPT ![roomId] = @ \cup {socket, opponent}]
            /\ roomIdP' = [roomIdP EXCEPT ![socket] = roomId, ![opponent] = roomId]
            /\ roomsP' = rooms
            /\ timersP' = timers
            /\ heapP' = Collect(Append(heapP,
                                  NewRoomP(roomId, opponent, socket, draws)),
                                rooms, timers)
            /\ outP' = <<MatchFound(roomId, opponent, socket)>>
    ELSE /\ waitingPlayer' = socket
         /\ outP' = <<WaitingOpponent(socket)>>
         /\ UNCHANGED <<joinedP, roomIdP, heapP, roomsP, timersP>>

\* socket.on('identify'): the profile carries no score in this variant
identifyP(socket, draws) ==
    /\ userP' = [userP EXCEPT ![socket] = [score |-> 0]]
    /\ findMatch(socket, draws)

\* roomId && rooms[roomId]
RoutedP(socket) == roomIdP[socket] # NoRoom /\ roomsP[roomIdP[socket]] # 0

\* clearInterval(room.timer) for the room object o
clearInterval(timers, heap, o) ==
    [t \in { x \in DOMAIN timers :
               ~(x.kind = "interval" /\ x.room = o /\ x.id = heap[o].timer) }
        |-> timers[t]]

\* function handleDisconnect(socket)
handleDisconnect(socket) ==
    /\ waitingPlayer' = IF waitingPlayer = socket THEN 0 ELSE waitingPlayer
    /\ joinedP' = [r \in RoomIds |-> joinedP[r] \ {socket}]
    /\ IF RoutedP(socket)
       THEN LET roomId == roomIdP[socket]
                rooms == deleteRoom(roomsP, roomId)
                timers == IF heapP[roomsP[roomId]].timer # 0
                          THEN clearInterval(timersP, heapP, roomsP[roomId])
                          ELSE timersP
            IN /\ outP' = <<OpponentLeft(roomId)>>
               /\ roomsP' = rooms
               /\ timersP' = timers
               /\ heapP' = Collect(heapP, rooms, timers)
       ELSE /\ outP' = <<>>
            /\ UNCHANGED <<roomsP, timersP, heapP>>
    /\ UNCHANGED <<userP, roomIdP>>

\* if (socket.id === room.p1.id), with a slip that takes the other branch
creditsP1Other(socket, room) == socket # room.p1

\* if (socket.id === room.p1.id): the points go to scores.p1, else to
\* scores.p2
creditsP1(socket, room) == socket = room.p1

\* socket.on('submit_score')
submit_scoreP(socket, points) ==
    IF ~RoutedP(socket)
    THEN /\ outP' = <<>>
         /\ UNCHANGED <<waitingPlayer, roomsP, heapP, userP, roomIdP, joinedP,
                        timersP>>
    ELSE LET roomId == roomIdP[socket]
             o == roomsP[roomId]
             scores == IF creditsP1(socket, heapP[o])
                       THEN [heapP[o].scores EXCEPT !.p1 = @ + points]
                       ELSE [heapP[o].scores EXCEPT !.p2 = @ + points]
         IN /\ heapP' = [heapP EXCEPT ![o].scores = scores]
            /\ outP' = <<ScoreUpdate(roomId, scores.p1, scores.p2)>>
            /\ UNCHANGED <<waitingPlayer, roomsP, userP, roomIdP, joinedP,
                           timersP>>

\* function endGame(roomId), called with the room registered
endGame(roomId, rest) ==
    LET o == roomsP[roomId]
        rooms == deleteRoom(roomsP, roomId)
    IN /\ outP' = <<GameOver(roomId, heapP[o].scores.p1, heapP[o].scores.p2)>>
       /\ joinedP' = [joinedP EXCEPT ![roomId] = @ \ {heapP[o].p1, heapP[o].p2}]
       /\ roomsP' = rooms
       /\ timersP' = rest
       /\ heapP' = Collect(heapP, rooms, rest)

\* function startRound(roomId), run by the 3000 ms and the 8000 ms callbacks
startRound(t, seek) ==
    /\ t.kind \in {"lobby", "reveal"}
    /\ LET rest == Unschedule(timersP, t)
           o == roomsP[t.roomId]
       IN IF o = 0
          THEN /\ timersP' = rest
               /\ heapP' = Collect(heapP, roomsP, rest)
               /\ outP' = <<>>
               /\ UNCHANGED <<roomsP, joinedP>>
          ELSE IF heapP[o].round >= heapP[o].maxRounds
          THEN endGame(t.roomId, rest)
          ELSE LET round == heapP[o].round + 1
                   timers == Schedule(rest, Timer("interval", t.roomId, o, round,
                                                  GuessDuration))
               IN /\ heapP' = Collect([heapP EXCEPT ![o].round = round,
                                                    ![o].timer = round],
                                      roomsP, timers)
                  /\ outP' = <<RoundStart(t.roomId, round,
                                          songIndexOf(heapP[o].deck, round),
                                          seekTimeOf(seek))>>
                  /\ timersP' = timers
                  /\ UNCHANGED <<roomsP, joinedP>>
    /\ UNCHANGED <<waitingPlayer, userP, roomIdP>>

\* function revealRound(roomId), with the scheduled callbacks in timers
revealRound(roomId, timers) ==
    IF roomsP[roomId] = 0
    THEN /\ timersP' = timers
         /\ heapP' = Collect(heapP, roomsP, timers)
         /\ outP' = <<>>
    ELSE LET next == Schedule(timers, Timer("reveal", roomId, 0, 0, 0))
         IN /\ timersP' = next
            /\ heapP' = Collect(heapP, roomsP, next)
            /\ outP' = <<RoundReveal(roomId)>>

\* timeLeft--: only the test timeLeft <= 0 reads it, so a countdown that is
\* already at or below zero is kept as it is
Decrement(timeLeft) == IF timeLeft <= 0 THEN timeLeft ELSE timeLeft - 1

\* the 1000 ms callback of setInterval fires
countdown(t) ==
    /\ t.kind = "interval"
    /\ LET left == Decrement(t.timeLeft)
           ticked == Schedule(Unschedule(timersP, t),
                              [t EXCEPT !.timeLeft = left,
                                        !.delay = DelayOf("interval")])
       IN IF left <= 0
          THEN revealRound(t.roomId, clearInterval(ticked, heapP, t.room))
          ELSE /\ timersP' = ticked
               /\ outP' = <<>>
               /\ UNCHANGED heapP
    /\ UNCHANGED <<waitingPlayer, roomsP, userP, roomIdP, joinedP>>

(* ============================= the observer ============================ *)

NoLife == [last |-> "none", round |-> 0]

\* what the observer of one room id remembers after seeing event e
Seen(l, e) ==
    CASE e.event = "match_found" -> [last |-> "match_found", round |-> 0]
      [] e.event = "round_start" -> [last |-> "round_start", round |-> e.round]
      [] e.event = "round_reveal" -> [last |-> "round_reveal", round |-> l.round]
      [] e.event = "game_over" -> [last |-> "game_over", round |-> 0]
      [] e.event = "opponent_left" -> [last |-> "opponent_left", round |-> 0]
      [] OTHER -> l

\* the observers of all room ids after the events of out, in order
RECURSIVE SeenAll(_, _)
SeenAll(l, out) ==
    IF out = <<>> THEN l
    ELSE SeenAll(IF Head(out).room = NoRoom THEN l
                 ELSE [l EXCEPT ![Head(out).room] = Seen(@, Head(out))],
                 Tail(out))

\* a match_found opens a new account of accepted points for its room id
RECURSIVE Opened(_, _)
Opened(acc, out) ==
    IF out = <<>> THEN acc
    ELSE Opened(IF Head(out).event = "match_found"
                THEN [acc EXCEPT ![Head(out).room] = [p1 |-> 0, p2 |-> 0]]
                ELSE acc,
                Tail(out))

\* the events emitted by the handler that has just run
Out == IF variant = "server.js" THEN outS ELSE outP
Rooms == IF variant = "server.js" THEN roomsS ELSE roomsP
Heap == IF variant = "server.js" THEN heapS ELSE heapP
RoomId == IF variant = "server.js" THEN roomIdS ELSE roomIdP
Timers == IF variant = "server.js" THEN timersS ELSE timersP

\* the events emitted by the handler that is running
Emitted == IF variant = "server.js" THEN outS' ELSE outP'

\* the seconds since the last lifecycle event of each room id, after the
\* events of the handler that is running
Restarted ==
    [r \in RoomIds |->
        IF \E i \in 1..Len(Emitted) :
              Emitted[i].room = r /\ Emitted[i].event # "score_update"
        THEN 0 ELSE since[r]]

Observe ==
    /\ life' = SeenAll(life, Emitted)
    /\ accepted' = Opened(accepted, Emitted)
    /\ since' = Restarted

\* a submit_score of socket s that passes the guard is accepted by the match
\* socket.roomId names, for each participant that s is
ObserveSubmit(s, points) ==
    /\ life' = SeenAll(life, Emitted)
    /\ since' = Restarted
    /\ accepted' =
         IF RoomId[s] # NoRoom /\ Rooms[RoomId[s]] # 0
         THEN LET room == Heap[Rooms[RoomId[s]]]
              IN [accepted EXCEPT
                    ![RoomId[s]] = [p1 |-> @.p1 + IF s = room.p1 THEN points ELSE 0,
                                    p2 |-> @.p2 + IF s = room.p2 THEN points ELSE 0]]
         ELSE accepted

(* ============================== the runs ================================ *)

InitS ==
    /\ queue = <<>>
    /\ roomsS = [r \in RoomIds |-> 0]
    /\ heapS = <<>>
    /\ userS = [s \in Sockets |-> NoUser]
    /\ roomIdS = [s \in Sockets |-> NoRoom]
    /\ joinedS = [r \in RoomIds |-> {}]
    /\ timersS = EmptyBag
    /\ outS = <<>>

InitP ==
    /\ waitingPlayer = 0
    /\ roomsP = [r \in RoomIds |-> 0]
    /\ heapP = <<>>
    /\ userP = [s \in Sockets |-> NoUser]
    /\ roomIdP = [s \in Sockets |-> NoRoom]
    /\ joinedP = [r \in RoomIds |-> {}]
    /\ timersP = EmptyBag
    /\ outP = <<>>

\* the server has started and no socket has connected
Start ==
    /\ now = 0
    /\ status = [s \in Sockets |-> "new"]
    /\ nIdentify = 0
    /\ nSubmit = 0
    /\ nCallbacks = 0
    /\ InitS
    /\ InitP
    /\ life = [r \in RoomIds |-> NoLife]
    /\ accepted = [r \in RoomIds |-> [p1 |-> 0, p2 |-> 0]]
    /\ since = [r \in RoomIds |-> 0]

\* one of the two files runs
OneVariant == variant \in {"server.js", "part_000"}

Init == OneVariant /\ run \in {"wide", "deep", "solo"} /\ Start

IdentifyLimit ==
    CASE run = "deep" -> DeepIdentify
      [] run = "timed" -> TimedIdentify
      [] OTHER -> MaxIdentify
TimerLimit == IF run = "solo" THEN SoloTimers ELSE MaxTimers

\* a client event of a connected socket, within the run's bounds
MayIdentify(s) ==
    /\ status[s] = "connected"
    /\ nIdentify < IdentifyLimit
    /\ Pending(Timers) < TimerLimit
    /\ nIdentify' = nIdentify + 1
    /\ UNCHANGED <<variant, run, status, nSubmit, nCallbacks, now>>

MaySubmit(s) ==
    /\ status[s] = "connected"
    /\ nSubmit < MaxSubmit
    /\ nSubmit' = nSubmit + 1
    /\ UNCHANGED <<variant, run, status, nIdentify, nCallbacks, now>>

\* a timer callback, within the run's bounds
MayCallback ==
    /\ run = "wide" => nCallbacks < MaxCallbacks
    /\ nCallbacks' = IF run = "wide" THEN nCallbacks + 1 ELSE nCallbacks
    /\ UNCHANGED <<variant, run, status, nIdentify, nSubmit, now>>

\* a callback runs when its delay has passed (a timed run keeps the time)
Due(t) == run = "timed" => t.delay = 0

\* the seconds since the last lifecycle event are counted up to this value
SinceCap == GuessDuration + 1

\* the scheduled callbacks one second later
Later(timers) ==
    [u \in { [t EXCEPT !.delay = @ - 1] : t \in BagToSet(timers) } |->
        timers[[u EXCEPT !.delay = @ + 1]]]

\* one second passes: no callback is due, and some callback is scheduled
\* (the sockets of the run have connected before)
Tick ==
    /\ run = "timed"
    /\ \A s \in 1..TimedSockets : status[s] # "new"
    /\ now < TimedSeconds
    /\ now' = now + 1
    /\ Timers # EmptyBag
    /\ \A t \in BagToSet(Timers) : t.delay > 0
    /\ IF variant = "server.js"
       THEN timersS' = Later(timersS) /\ UNCHANGED timersP
       ELSE timersP' = Later(timersP) /\ UNCHANGED timersS
    /\ since' = [r \in RoomIds |->
                   IF since[r] < SinceCap THEN since[r] + 1 ELSE since[r]]
    /\ outS' = <<>>
    /\ outP' = <<>>
    /\ UNCHANGED <<variant, run, status, nIdentify, nSubmit, nCallbacks>>
    /\ UNCHANGED <<queue, roomsS, heapS, userS, roomIdS, joinedS>>
    /\ UNCHANGED <<waitingPlayer, roomsP, heapP, userP, roomIdP, joinedP>>
    /\ UNCHANGED <<life, accepted>>

Connect ==
    \E s \in Sockets :
        /\ connection(s)
        /\ run = "solo" => s <= SoloSockets
        /\ run = "timed" => s <= TimedSockets
        /\ run = "both" => s <= BothSockets
        /\ outS' = <<>>
        /\ outP' = <<>>
        /\ UNCHANGED <<variant, run, nIdentify, nSubmit, nCallbacks, now>>
        /\ UNCHANGED <<queue, roomsS, heapS, userS, roomIdS, joinedS, timersS>>
        /\ UNCHANGED <<waitingPlayer, roomsP, heapP, userP, roomIdP, joinedP,
                       timersP>>
        /\ UNCHANGED obsVars

IdentifyS ==
    \E s \in Sockets, draws \in DeckDraws :
        /\ variant = "server.js"
        /\ MayIdentify(s)
        /\ identifyS(s, draws)
        /\ Observe
        /\ UNCHANGED varsP

DisconnectS ==
    \E s \in Sockets :
        /\ variant = "server.js"
        /\ gone(s)
        /\ disconnectS(s)
        /\ Observe
        /\ UNCHANGED <<variant, run, nIdentify, nSubmit, nCallbacks, now, varsP>>

SubmitScoreS ==
    \E s \in Sockets, points \in Points :
        /\ variant = "server.js"
        /\ MaySubmit(s)
        /\ submit_scoreS(s, points)
        /\ ObserveSubmit(s, points)
        /\ UNCHANGED varsP

StartGameLoopS ==
    \E t \in BagToSet(timersS), seek \in SeekDraws :
        /\ variant = "server.js"
        /\ MayCallback
        /\ Due(t)
        /\ startGameLoop(t, seek)
        /\ Observe
        /\ UNCHANGED varsP

GuessTimeoutS ==
    \E t \in BagToSet(timersS) :
        /\ variant = "server.js"
        /\ MayCallback
        /\ Due(t)
        /\ guessTimeoutS(t)
        /\ Observe
        /\ UNCHANGED varsP

RevealTimeoutS ==
    \E t \in BagToSet(timersS), seek \in SeekDraws :
        /\ variant = "server.js"
        /\ MayCallback
        /\ Due(t)
        /\ revealTimeoutS(t, seek)
        /\ Observe
        /\ UNCHANGED varsP

IdentifyP ==
    \E s \in Sockets, draws \in DeckDraws :
        /\ variant = "part_000"
        /\ MayIdentify(s)
        /\ identifyP(s, draws)
        /\ Observe
        /\ UNCHANGED varsS

DisconnectP ==
    \E s \in Sockets :
        /\ variant = "part_000"
        /\ gone(s)
        /\ handleDisconnect(s)
        /\ Observe
        /\ UNCHANGED <<variant, run, nIdentify, nSubmit, nCallbacks, now, varsS>>

SubmitScoreP ==
    \E s \in Sockets, points \in Points :
        /\ variant = "part_000"
        /\ MaySubmit(s)
        /\ submit_scoreP(s, points)
        /\ ObserveSubmit(s, points)
        /\ UNCHANGED varsS

StartRoundP ==
    \E t \in BagToSet(timersP), seek \in SeekDraws :
        /\ variant = "part_000"
        /\ MayCallback
        /\ Due(t)
        /\ startRound(t, seek)
        /\ Observe
        /\ UNCHANGED varsS

CountdownP ==
    \E t \in BagToSet(timersP) :
        /\ variant = "part_000"
        /\ MayCallback
        /\ Due(t)
        /\ Pending(timersP) < TimerLimit \/ Decrement(t.timeLeft) > 0
        /\ countdown(t)
        /\ Observe
        /\ UNCHANGED varsS

NextS ==
    \/ IdentifyS
    \/ DisconnectS
    \/ SubmitScoreS
    \/ StartGameLoopS
    \/ GuessTimeoutS
    \/ RevealTimeoutS

NextP ==
    \/ IdentifyP
    \/ DisconnectP
    \/ SubmitScoreP
    \/ StartRoundP
    \/ CountdownP

Next == Connect \/ NextS \/ NextP

Spec == Init /\ [][Next]_vars

\* the runs whose timers run freely: the matches are played to their end
InitLong == OneVariant /\ run \in {"deep", "solo"} /\ Start

SpecLong == InitLong /\ [][Next]_vars

\* the runs that keep the time
InitTimed == OneVariant /\ run = "timed" /\ Start

\* no socket disconnects in a timed run
NextTimed ==
    \/ Tick
    \/ Connect
    \/ IdentifyS
    \/ SubmitScoreS
    \/ StartGameLoopS
    \/ GuessTimeoutS
    \/ RevealTimeoutS
    \/ IdentifyP
    \/ SubmitScoreP
    \/ StartRoundP
    \/ CountdownP

SpecTimed == InitTimed /\ [][NextTimed]_vars

(* ========================== the two files side by side ================= *)

\* the side-by-side run: the same client events and the same draws go to
\* both files, and the timer callbacks of the same match id and phase run
\* together (the 20000 ms timeout of server.js with the 20th tick of the
\* interval of part_000)
InitBoth == variant = "both" /\ run = "both" /\ Start

\* the callbacks of the two files that stand for the same expiry
SameExpiry(tS, tP) ==
    /\ tS.roomId = tP.roomId
    /\ \/ tS.kind = "lobby" /\ tP.kind = "lobby"
       \/ tS.kind = "reveal" /\ tP.kind = "reveal"
       \/ tS.kind = "guess" /\ tP.kind = "interval"
                             /\ Decrement(tP.timeLeft) <= 0

MayCallbackBoth ==
    /\ nCallbacks < BothCallbacks
    /\ nCallbacks' = nCallbacks + 1
    /\ UNCHANGED <<variant, run, status, nIdentify, nSubmit, now, obsVars>>

BothIdentifyStep ==
    \E s \in Sockets, draws \in DeckDraws :
        /\ status[s] = "connected"
        /\ nIdentify < BothIdentify
        /\ nIdentify' = nIdentify + 1
        /\ identifyS(s, draws)
        /\ identifyP(s, draws)
        /\ UNCHANGED <<variant, run, status, nSubmit, nCallbacks, now, obsVars>>

BothDisconnect ==
    \E s \in Sockets :
        /\ gone(s)
        /\ disconnectS(s)
        /\ handleDisconnect(s)
        /\ UNCHANGED <<variant, run, nIdentify, nSubmit, nCallbacks, now,
                       obsVars>>

BothSubmitScore ==
    \E s \in Sockets, points \in Points :
        /\ status[s] = "connected"
        /\ nSubmit < BothSubmit
        /\ nSubmit' = nSubmit + 1
        /\ submit_scoreS(s, points)
        /\ submit_scoreP(s, points)
        /\ UNCHANGED <<variant, run, status, nIdentify, nCallbacks, now,
                       obsVars>>

BothLobbyTimeout ==
    \E tS \in BagToSet(timersS), tP \in BagToSet(timersP), seek \in SeekDraws :
        /\ SameExpiry(tS, tP)
        /\ MayCallbackBoth
        /\ startGameLoop(tS, seek)
        /\ tP.kind = "lobby"
        /\ startRound(tP, seek)

BothGuessTimeout ==
    \E tS \in BagToSet(timersS), tP \in BagToSet(timersP) :
        /\ SameExpiry(tS, tP)
        /\ MayCallbackBoth
        /\ guessTimeoutS(tS)
        /\ countdown(tP)

BothRevealTimeout ==
    \E tS \in BagToSet(timersS), tP \in BagToSet(timersP), seek \in SeekDraws :
        /\ SameExpiry(tS, tP)
        /\ MayCallbackBoth
        /\ revealTimeoutS(tS, seek)
        /\ tP.kind = "reveal"
        /\ startRound(tP, seek)

\* a tick of the interval of part_000 before the 20th: server.js has no
\* callback at that time
TickOnlyP ==
    \E tP \in BagToSet(timersP) :
        /\ tP.kind = "interval"
        /\ Decrement(tP.timeLeft) > 0
        /\ countdown(tP)
        /\ outS' = <<>>
        /\ UNCHANGED <<queue, roomsS, heapS, userS, roomIdS, joinedS, timersS>>
        /\ UNCHANGED <<envVars, obsVars>>

\* a callback of server.js whose counterpart part_000 has cleared
ExpiryOnlyS ==
    \E tS \in BagToSet(timersS), seek \in SeekDraws :
        /\ \A tP \in BagToSet(timersP) : tP.roomId # tS.roomId
        /\ \/ startGameLoop(tS, seek)
           \/ guessTimeoutS(tS)
           \/ revealTimeoutS(tS, seek)
        /\ outP' = <<>>
        /\ UNCHANGED <<waitingPlayer, roomsP, heapP, userP, roomIdP, joinedP,
                       timersP>>
        /\ UNCHANGED <<envVars, obsVars>>

NextBoth ==
    \/ Connect
    \/ BothIdentifyStep
    \/ BothDisconnect
    \/ BothSubmitScore
    \/ BothLobbyTimeout
    \/ BothGuessTimeout
    \/ BothRevealTimeout
    \/ TickOnlyP
    \/ ExpiryOnlyS

SpecBoth == InitBoth /\ [][NextBoth]_vars

(* ============================== the claims ============================= *)

\* the handler that is running is the identify handler of some socket
IdentifyStep == nIdentify' = nIdentify + 1
\* the handler that is running is the disconnect handler of socket s
DisconnectStep(s) == status[s] = "connected" /\ status'[s] = "disconnected"

\* the sockets waiting for an opponent
Waiting ==
    IF variant = "server.js" THEN { queue[i] : i \in 1..Len(queue) }
    ELSE { waitingPlayer } \ {0}
\* the number of entries of the matchmaking queue
QueueLength == IF variant = "server.js" THEN Len(queue) ELSE Cardinality(Waiting)

Registered == { r \in RoomIds : Rooms[r] # 0 }
RoomOf(r) == Heap[Rooms[r]]
Participants(r) == { RoomOf(r).p1, RoomOf(r).p2 }
EmittedEvents == { Emitted[i] : i \in 1..Len(Emitted) }

\* C1: at most one handle is waiting in the matchmaking queue after every
\* handler, and an identify that finds a waiting handle pairs with it at once
\* (a match_found is emitted and the queue is empty afterwards) instead of
\* lengthening the queue.
C1_QueueInvariant ==
    [][ /\ QueueLength' <= 1
        /\ Cardinality(Waiting') <= 1
        /\ (IdentifyStep /\ Waiting # {}) =>
              /\ QueueLength' = 0
              /\ \E e \in EmittedEvents :
                    e.event = "match_found" /\ e.p1 \in Waiting ]_vars

\* C1 witness: an identify has just paired the arriving socket with the one
\* that was waiting, and the queue is empty again
C1_Witness ==
    /\ variant = "server.js"
    /\ queue = <<>>
    /\ \E i \in 1..Len(outS) : outS[i].event = "match_found"

\* C2: every socket is p1 or p2 of at most one match registered in rooms.
C2_OneMatchPerHandle ==
    \A s \in Sockets :
        Cardinality({ r \in Registered : s \in Participants(r) }) <= 1

\* C3: the two participants of every registered match are distinct sockets.
C3_DistinctParticipants ==
    \A r \in Registered : RoomOf(r).p1 # RoomOf(r).p2

\* C4: per match id the events come in the order match_found, then
\* round_start(r) and round_reveal for r = 1, 2, ... up to maxRounds, then
\* game_over: a round_start of round r follows match_found (r = 1) or the
\* reveal of round r - 1, a round_reveal follows the round_start of its round,
\* and game_over follows a round_reveal.  (A match_found opens a new match.)
C4_EventOrder ==
    [][ \A e \in EmittedEvents :
          /\ e.event = "round_start" =>
                /\ e.round \in 1..maxRounds
                /\ \/ life[e.room].last = "match_found" /\ e.round = 1
                   \/ life[e.room].last = "round_reveal"
                        /\ e.round = life[e.room].round + 1
          /\ e.event = "round_reveal" => life[e.room].last = "round_start"
          /\ e.event = "game_over" => life[e.room].last = "round_reveal" ]_vars

\* the room objects that exist before and after the step
Surviving ==
    { i \in 1..Len(Heap) : Heap[i] # Garbage /\ Heap'[i] # Garbage }

\* C5: the round counter of a match starts at 0, never exceeds maxRounds,
\* changes only by growing by exactly 1 together with the round_start that
\* carries the new value, and every round_start comes with such a step.
C5_RoundCounter ==
    [][ /\ \A i \in 1..Len(Heap') :
              Heap'[i] # Garbage => Heap'[i].round \in 0..maxRounds
        /\ \A i \in (Len(Heap) + 1)..Len(Heap') :
              Heap'[i] # Garbage => Heap'[i].round = 0
        /\ \A i \in Surviving :
              Heap'[i].round # Heap[i].round =>
                /\ Heap'[i].round = Heap[i].round + 1
                /\ \E e \in EmittedEvents :
                      /\ e.event = "round_start"
                      /\ e.room = Heap[i].id
                      /\ e.round = Heap'[i].round
        /\ \A e \in EmittedEvents :
              e.event = "round_start" =>
                \E i \in Surviving :
                    /\ Heap[i].id = e.room
                    /\ Heap'[i].round = Heap[i].round + 1
                    /\ e.round = Heap'[i].round ]_vars

\* C5 witness: a match has counted its last round
C5_Witness ==
    \E i \in 1..Len(Heap) : Heap[i] # Garbage /\ Heap[i].round = maxRounds

\* the score the server holds for participant p1 / p2 of room object o
ScoreP1(o) == IF variant = "server.js" THEN userS[o.p1].score ELSE o.scores.p1
ScoreP2(o) == IF variant = "server.js" THEN userS[o.p2].score ELSE o.scores.p2

\* a match id of two different sockets
Proper(r) == r[1] # r[2]

\* C6 (what a finite run can refute of it): game_over is emitted for a match
\* id only right after the reveal of round maxRounds, the id is then not
\* routable, and game_over carries the points accepted from each participant
\* since the match was created (judged for matches of two different sockets).
C6_GameOverAfterLastReveal ==
    [][ \A e \in EmittedEvents :
          e.event = "game_over" =>
            /\ life[e.room] = [last |-> "round_reveal", round |-> maxRounds]
            /\ Rooms'[e.room] = 0
            /\ Proper(e.room) =>
                  e.p1 = accepted[e.room].p1 /\ e.p2 = accepted[e.room].p2 ]_vars

\* C7: the scores of a registered match are, for p1 and for p2, the sum of
\* the points accepted from that participant since the match was created
\* (so nothing but an accepted submit_score changes them), and every
\* score_update carries exactly these sums.  Judged for matches of two
\* different sockets.
C7_ScoresAreAcceptedSums ==
    /\ \A r \in Registered :
          Proper(r) =>
            /\ ScoreP1(RoomOf(r)) = accepted[r].p1
            /\ ScoreP2(RoomOf(r)) = accepted[r].p2
    /\ \A i \in 1..Len(Out) :
          (Out[i].event = "score_update" /\ Proper(Out[i].room)) =>
            /\ Out[i].p1 = accepted[Out[i].room].p1
            /\ Out[i].p2 = accepted[Out[i].room].p2

\* C8: the disconnect of a participant of a registered match removes the
\* match in that step and emits exactly one opponent_left for its id, and
\* once opponent_left has been emitted for an id nothing more is emitted
\* for it.
C8_DisconnectEndsMatch ==
    [][ /\ \A s \in Sockets : \A r \in Registered :
              (DisconnectStep(s) /\ s \in Participants(r)) =>
                /\ Rooms'[r] = 0
                /\ Cardinality({ i \in 1..Len(Emitted) :
                                   Emitted[i] = OpponentLeft(r) }) = 1
        /\ \A e \in EmittedEvents :
              e.room # NoRoom => life[e.room].last # "opponent_left" ]_vars

\* C9: both participants of every registered match are connected.
C9_NoMatchOutlivesParticipants ==
    \A r \in Registered : \A s \in Participants(r) : status[s] = "connected"

\* C10: the disconnect of the waiting handle empties the queue, registers no
\* match and emits no opponent_left; the disconnect of any other handle
\* leaves the queue as it is; and an identify never pairs the arriving
\* handle with a handle that has disconnected: with nobody waiting it makes
\* the arriving handle the waiting one and sends it waiting_opponent.
C10_WaitingHandleLeaves ==
    [][ /\ \A s \in Sockets :
              DisconnectStep(s) =>
                IF s \in Waiting
                THEN /\ Waiting' = {}
                     /\ QueueLength' = 0
                     /\ Registered' \subseteq Registered
                     /\ Len(Heap') = Len(Heap)
                     /\ \A e \in EmittedEvents : e.event # "opponent_left"
                ELSE /\ Waiting' = Waiting
                     /\ QueueLength' = QueueLength
        /\ IdentifyStep =>
              /\ \A e \in EmittedEvents :
                    e.event = "match_found" =>
                      status[e.p1] = "connected" /\ status[e.p2] = "connected"
              /\ Waiting = {} =>
                    \E s \in Sockets :
                        Waiting' = {s} /\ Emitted = <<WaitingOpponent(s)>> ]_vars

\* socket.user of the variant that runs
User == IF variant = "server.js" THEN userS ELSE userP

\* the step registers nothing under r unless it emits the match_found of r
OpensMatch(r) ==
    \E e \in EmittedEvents : e.event = "match_found" /\ e.room = r

DeckRange == IF variant = "server.js" THEN DECK_SIZE ELSE DB_LENGTH

\* the room object o is a match of a (waiting) and b (arriving) as created
NewMatch(o, roomId, a, b) ==
    /\ o.id = roomId
    /\ o.p1 = a
    /\ o.p2 = b
    /\ o.round = 0
    /\ o.maxRounds = maxRounds
    /\ variant = "server.js" => o.phase = "lobby"
    /\ Len(o.deck) = maxRounds
    /\ \A i \in 1..Len(o.deck) : o.deck[i] \in 0..(DeckRange - 1)

\* C12: an identify of b that finds a waiting registers exactly one new match,
\* under the id room_a_b, with p1 = a, p2 = b, round 0, phase lobby, scores
\* 0/0 and a deck of 15 entries in [0, 300); it empties the queue and emits
\* match_found for that id and nothing else.  An identify that finds nobody
\* waiting makes the arriving socket the waiting one, sends it
\* waiting_opponent and creates no match.
C12_PairingPostcondition ==
    [][ IdentifyStep =>
          IF Waiting # {}
          THEN \E a \in Waiting, b \in Sockets :
                  LET roomId == RoomIdOf(a, b)
                  IN /\ Emitted = <<MatchFound(roomId, a, b)>>
                     /\ QueueLength' = 0
                     /\ Registered' = Registered \cup {roomId}
                     /\ Len(Heap') = Len(Heap) + 1
                     /\ Rooms'[roomId] = Len(Heap')
                     /\ NewMatch(Heap'[Rooms'[roomId]], roomId, a, b)
                     /\ ScoreP1(RoomOf(roomId))' = 0
                     /\ ScoreP2(RoomOf(roomId))' = 0
          ELSE \E b \in Sockets :
                  /\ Emitted = <<WaitingOpponent(b)>>
                  /\ Waiting' = {b}
                  /\ QueueLength' = 1
                  /\ Registered' = Registered
                  /\ Len(Heap') = Len(Heap) ]_vars

\* the callbacks that are scheduled and have not run
Outstanding == BagToSet(Timers)

\* C13: every outstanding timer belongs to a match id that is registered:
\* removing a match from rooms (game over, or a disconnect in any phase)
\* leaves no timer of that id outstanding.  Judged for matches of two
\* different sockets.
C13_NoTimerOutlivesMatch ==
    \A t \in Outstanding : Proper(t.roomId) => Rooms[t.roomId] # 0

\* the number of callbacks scheduled for room id r that have not run
TimersOf(r) ==
    BagCardinality([t \in { x \in Outstanding : x.roomId = r } |-> Timers[t]])

\* C14: at most one timer is outstanding per match id.  Judged for the ids
\* of two different sockets.
C14_OneTimerPerMatch ==
    \A r \in RoomIds : Proper(r) => TimersOf(r) <= 1

\* a match has been created under room id r at some time of the run
Created(r) == life[r].last # "none"

\* C15: a pairing creates its match under an id under which no match has
\* been created before in the run, and so never writes over an entry that
\* is registered.  Judged for the ids of two different sockets.
C15_MatchIdsAreFresh ==
    [][ \A e \in EmittedEvents :
          (e.event = "match_found" /\ Proper(e.room)) =>
             /\ ~Created(e.room)
             /\ Rooms[e.room] = 0 ]_vars

\* the seconds that lie between the last lifecycle event of kind last and
\* the event e that follows it (-1: no fixed delay is claimed)
DelayAfter(last, e) ==
    CASE last = "match_found" /\ e.event = "round_start" -> LobbyDelay
      [] last = "round_start" /\ e.event = "round_reveal" -> GuessDuration
      [] last = "round_reveal" /\ e.event \in {"round_start", "game_over"} ->
            RevealDelay
      [] OTHER -> -1

\* C16: round_start 1 is emitted 3 seconds after match_found, round_reveal
\* 20 seconds after the round_start of its round, and the next round_start
\* (or game_over) 8 seconds after round_reveal, whatever submit_score and
\* identify events arrive in between (no socket disconnects in these runs).
\* Judged for matches of two different sockets.
C16_FixedDelays ==
    [][ \A e \in EmittedEvents :
          (Proper(e.room) /\ DelayAfter(life[e.room].last, e) # -1) =>
              since[e.room] = DelayAfter(life[e.room].last, e) ]_vars

\* C18: every round_start comes from a room object of its id whose round
\* counter the step has raised by one; it carries the raised counter (in
\* 1..15), the entry of that object's deck at position round - 1 (an index in
\* [0, 300)), a seek offset in 40..50 and duration 20; and no step changes
\* the deck of a room object.
C18_RoundStartPayload ==
    [][ /\ \A e \in EmittedEvents :
              e.event = "round_start" =>
                /\ e.round \in 1..15
                /\ e.songIndex \in 0..299
                /\ e.seekTime \in 40..50
                /\ e.duration = 20
                /\ \E i \in Surviving :
                      /\ Heap[i].id = e.room
                      /\ Heap'[i].round = Heap[i].round + 1
                      /\ e.round = Heap'[i].round
                      /\ e.songIndex = Heap[i].deck[e.round]
        /\ \A i \in Surviving : Heap'[i].deck = Heap[i].deck ]_vars

\* C18 witness: a round_start after the first has just been emitted with the
\* largest seek offset
C18_Witness ==
    \E i \in 1..Len(Out) :
        /\ Out[i].event = "round_start"
        /\ Out[i].round = 2
        /\ Out[i].seekTime = 50
        /\ Out[i].songIndex = 299

\* the ids registered in rooms by each file
RegisteredS == { r \in RoomIds : roomsS[r] # 0 }
RegisteredP == { r \in RoomIds : roomsP[r] # 0 }

\* the step has emitted, in one of the files, an event for a match of two
\* different sockets or an event for one socket
ProperlyEmitted(out) ==
    \E i \in 1..Len(out) : out[i].room = NoRoom \/ Proper(out[i].room)

\* C19: run side by side, the two files emit the same events after every
\* step (same kind, room, socket, round, song, seek, and the same p1/p2
\* values) and have the same match ids registered.  The events are compared
\* for matches of two different sockets.
C19_SameObservations ==
    /\ (ProperlyEmitted(outS) \/ ProperlyEmitted(outP)) => outS = outP
    /\ RegisteredS = RegisteredP

\* a socket whose roomId names a registered match is p1 or p2 of it
RoutedToOwnMatch ==
    \A s \in Sockets :
        (RoomId[s] # NoRoom /\ Rooms[RoomId[s]] # 0)
            => s \in Participants(RoomId[s])

\* submit_score has been accepted by the match r in the step
AcceptedBy(r) ==
    /\ nSubmit' # nSubmit
    /\ \E e \in EmittedEvents : e.event = "score_update" /\ e.room = r

\* the points the step has accepted from p1 and from p2 of the match r: the
\* submitting socket is p1, p2, or both (a submission is accepted from the
\* socket whose roomId is r)
FromP1(r) == accepted'[r].p1 - accepted[r].p1
FromP2(r) == accepted'[r].p2 - accepted[r].p2

\* C20: in every reachable state a socket whose roomId names a registered
\* match is p1 or p2 of that match, and every accepted submit_score adds its
\* points to a score of the submitting socket only: the score of p1 changes
\* only by points submitted by p1, the score of p2 only by points submitted
\* by p2, submitted points are credited, and (server.js) no socket outside
\* the match has its score changed.
C20_RoutingConsistency ==
    [][ /\ RoutedToOwnMatch
        /\ RoutedToOwnMatch'
        /\ \A r \in RoomIds :
              AcceptedBy(r) =>
                /\ Rooms'[r] = Rooms[r]
                /\ ScoreP1(RoomOf(r))' - ScoreP1(RoomOf(r)) \in {0, FromP1(r)}
                /\ ScoreP2(RoomOf(r))' - ScoreP2(RoomOf(r)) \in {0, FromP2(r)}
                /\ (FromP1(r) + FromP2(r) > 0)
                      => (ScoreP1(RoomOf(r))' > ScoreP1(RoomOf(r))
                          \/ ScoreP2(RoomOf(r))' > ScoreP2(RoomOf(r)))
                /\ \A x \in Sockets \ Participants(r) : User'[x] = User[x] ]_vars

\* the second player of a match of two sockets has scored
C20_Witness ==
    \E i \in 1..Len(Out) :
        /\ Out[i].event = "score_update"
        /\ Proper(Out[i].room)
        /\ Out[i].p2 > 0
        /\ Out[i].p1 = 0
====
